---- MODULE Spec2Model ----
(***************************************************************************)
(* Model of the incremental monitoring pipeline of reddit_monitor:         *)
(* api.py (fetch client), state.py (seen-item store) and monitor.py        *)
(* (classifier, deep-fetch selection, run_monitor).                        *)
(*                                                                         *)
(* Strings are sequences of one-character strings, so that lower() and the *)
(* substring test `in` are computed.  JSON values are tagged records.  A   *)
(* Python call that may raise returns Ok(v) or Raise(e).                   *)
(***************************************************************************)
EXTENDS Integers, Sequences, FiniteSets, TLC

(***************************************************************************)
(* Bounds of the model.                                                    *)
(***************************************************************************)
\* longest listing a search answers with
MaxResults == 1
\* largest max_seen_ids setting explored (0..MaxCap)
MaxCap == 2
\* tokens of the state file that reach the disk in one flush of the writer
BufferTokens == 3

(***************************************************************************)
(* The configuration run_monitor is called with.                           *)
(***************************************************************************)
VARIABLE cfg

(***************************************************************************)
(* Strings.                                                                *)
(***************************************************************************)
Uppers == <<"A","B","C","D","E","F","G","H","I","J","K","L","M",
            "N","O","P","Q","R","S","T","U","V","W","X","Y","Z">>
Lowers == <<"a","b","c","d","e","f","g","h","i","j","k","l","m",
            "n","o","p","q","r","s","t","u","v","w","x","y","z">>

\* the lower-case letter of each upper-case letter
LowerOf ==
    [c \in {Uppers[i] : i \in 1..Len(Uppers)} |->
        Lowers[CHOOSE i \in 1..Len(Uppers) : Uppers[i] = c]]

\* str.lower() on one character
LowerCh(c) == IF c \in DOMAIN LowerOf THEN LowerOf[c] ELSE c

\* str.lower()
Lower(s) == [i \in 1..Len(s) |-> LowerCh(s[i])]

\* Python `sub in s` on strings
Contains(s, sub) ==
    \E i \in 0..(Len(s) - Len(sub)) :
        \A j \in 1..Len(sub) : s[i + j] = sub[j]

\* Python s[:n]
Take(s, n) == IF Len(s) <= n THEN s ELSE SubSeq(s, 1, n)

\* Python s[-n:] for n >= 0 (note that -0 is 0, so s[-0:] is s[0:])
LastN(s, n) ==
    IF n = 0 \/ n >= Len(s) THEN s ELSE SubSeq(s, Len(s) - n + 1, Len(s))

\* any(x in text for x in terms)
AnyIn(terms, text) == \E i \in 1..Len(terms) : Contains(text, terms[i])

\* [f(x) for x in s]
LowerAll(ss) == [i \in 1..Len(ss) |-> Lower(ss[i])]

RECURSIVE Flatten(_)
\* concatenation of a sequence of sequences
Flatten(ss) == IF ss = <<>> THEN <<>> ELSE Head(ss) \o Flatten(Tail(ss))

RECURSIVE SelectSeqIdx(_, _, _)
\* the subsequence of s at the positions i..Len(s) that are in keep
SelectSeqIdx(s, keep, i) ==
    IF i > Len(s) THEN <<>>
    ELSE (IF i \in keep THEN <<s[i]>> ELSE <<>>) \o SelectSeqIdx(s, keep, i + 1)

Range(s) == {s[i] : i \in 1..Len(s)}

(***************************************************************************)
(* JSON values and Python call results.                                    *)
(***************************************************************************)
JNull == [k |-> "null"]
JBool(b) == [k |-> "bool", b |-> b]
JNum(n) == [k |-> "num", n |-> n]
JStr(s) == [k |-> "str", s |-> s]
JList(l) == [k |-> "list", l |-> l]
JObj(o) == [k |-> "obj", o |-> o]
EmptyObj == JObj([x \in {} |-> JNull])

Ok(v) == [raises |-> FALSE, val |-> v]
Raise(e) == [raises |-> TRUE, exc |-> e]

\* Python truthiness of a decoded JSON value
Truthy(j) ==
    CASE j.k = "null" -> FALSE
      [] j.k = "bool" -> j.b
      [] j.k = "num" -> j.n # 0
      [] j.k = "str" -> j.s # <<>>
      [] j.k = "list" -> j.l # <<>>
      [] j.k = "obj" -> DOMAIN j.o # {}

\* dict.get(key, default)
Get(obj, key, default) == IF key \in DOMAIN obj.o THEN obj.o[key] ELSE default

\* the Python value of a string or number field
Native(j) ==
    CASE j.k = "str" -> j.s
      [] j.k = "num" -> j.n
      [] OTHER -> j

DataChars == <<"d","a","t","a">>
T1 == <<"t","1">>
ListingKind == <<"L","i","s","t","i","n","g">>
TextLimit == 1000

\* Python (v or "")[:1000]
TruncText(v) ==
    IF ~Truthy(v) THEN Ok(<<>>)
    ELSE IF v.k = "str" THEN Ok(Take(v.s, TextLimit))
    ELSE IF v.k = "list" THEN Ok(JList(Take(v.l, TextLimit)))
    ELSE Raise("TypeError")

(***************************************************************************)
(* api.py                                                                  *)
(***************************************************************************)
\* A response of the platform: the request times out, answers with an HTTP
\* error status, or answers 200 with a body that parses as JSON or not.
Timeout == [status |-> "timeout"]
HttpError == [status |-> "http_error"]
BadJson == [status |-> "bad_json"]
Body(j) == [status |-> "ok", json |-> j]

\* fetch_reddit without its try/except
fetch_reddit_uncaught(resp) ==
    IF resp.status = "ok" THEN Ok([data |-> resp.json, slept |-> TRUE])
    ELSE Raise(resp.status)

\* fetch_reddit: decoded JSON after sleeping, or None after any exception
fetch_reddit(resp) ==
    IF resp.status = "ok" THEN Ok([data |-> resp.json, slept |-> TRUE])
    ELSE Ok([data |-> JNull, slept |-> FALSE])

\* Python `"data" in data`
DataIn(data) ==
    CASE data.k = "obj" -> Ok("data" \in DOMAIN data.o)
      [] data.k = "list" -> Ok(\E i \in 1..Len(data.l) : data.l[i] = JStr(DataChars))
      [] data.k = "str" -> Ok(Contains(data.s, DataChars))
      [] OTHER -> Raise("TypeError")

\* the post dict built from one child of the listing
PostOf(child) ==
    IF child.k # "obj" THEN Raise("AttributeError")
    ELSE LET d == Get(child, "data", EmptyObj) IN
        IF d.k # "obj" THEN Raise("AttributeError")
        ELSE LET st == TruncText(Get(d, "selftext", JStr(<<>>))) IN
            IF st.raises THEN st
            ELSE Ok([title |-> Native(Get(d, "title", JStr(<<>>))),
                     subreddit |-> Native(Get(d, "subreddit", JStr(<<>>))),
                     author |-> Native(Get(d, "author", JStr(<<>>))),
                     score |-> Native(Get(d, "score", JNum(0))),
                     num_comments |-> Native(Get(d, "num_comments", JNum(0))),
                     selftext |-> st.val,
                     id |-> Native(Get(d, "id", JStr(<<>>)))])

\* the elements a Python for loop draws from a decoded JSON value (a list's
\* elements, a string's characters, a dict's keys; a key stands as a
\* one-character string, its readers only test that it is not an object)
Iterate(v) ==
    CASE v.k = "list" -> Ok(v.l)
      [] v.k = "str" -> Ok([i \in 1..Len(v.s) |-> JStr(<<v.s[i]>>)])
      [] v.k = "obj" -> Ok([i \in 1..Cardinality(DOMAIN v.o) |-> JStr(<<"k">>)])
      [] OTHER -> Raise("TypeError")

extract_posts(data) ==
    IF ~Truthy(data) THEN Ok(<<>>)
    ELSE LET has == DataIn(data) IN
        IF has.raises THEN has
        ELSE IF ~has.val THEN Ok(<<>>)
        ELSE IF data.k # "obj" THEN Raise("TypeError")
        ELSE LET dd == data.o["data"] IN
            IF dd.k # "obj" THEN Raise("AttributeError")
            ELSE LET it == Iterate(Get(dd, "children", JList(<<>>))) IN
                IF it.raises THEN it
                ELSE LET ps == [i \in 1..Len(it.val) |-> PostOf(it.val[i])] IN
                    IF \E i \in 1..Len(ps) : ps[i].raises
                    THEN ps[CHOOSE i \in 1..Len(ps) :
                                ps[i].raises /\ \A j \in 1..(i - 1) : ~ps[j].raises]
                    ELSE Ok([i \in 1..Len(ps) |-> ps[i].val])

\* run_search: the posts of one query; whether the rate delay was slept
run_search(resp) ==
    LET f == fetch_reddit(resp) IN
    IF f.raises THEN f
    ELSE LET ps == extract_posts(f.val.data) IN
        IF ps.raises THEN ps ELSE Ok([posts |-> ps.val, slept |-> f.val.slept])

RECURSIVE walk_comments(_)
RECURSIVE WalkChildren(_, _)

\* for child in children: walk_comments(child)
WalkChildren(children, i) ==
    IF i > Len(children) THEN Ok(<<>>)
    ELSE LET w == walk_comments(children[i]) IN
        IF w.raises THEN w
        ELSE LET rest == WalkChildren(children, i + 1) IN
            IF rest.raises THEN rest ELSE Ok(w.val \o rest.val)

\* for child in node.get("data", {}).get("children", []): walk_comments(child)
WalkListing(node) ==
    LET d == Get(node, "data", EmptyObj) IN
    IF d.k # "obj" THEN Raise("AttributeError")
    ELSE LET it == Iterate(Get(d, "children", JList(<<>>))) IN
        IF it.raises THEN it ELSE WalkChildren(it.val, 1)

\* walk_comments: the comments appended while walking node, depth first
walk_comments(node) ==
    IF node.k # "obj" THEN Ok(<<>>)
    ELSE LET kind == Get(node, "kind", JNull) IN
        IF kind = JStr(T1) THEN
            LET cd == Get(node, "data", EmptyObj) IN
            IF cd.k # "obj" THEN Raise("AttributeError")
            ELSE LET body == TruncText(Get(cd, "body", JStr(<<>>))) IN
                IF body.raises THEN body
                ELSE LET c == [author |-> Native(Get(cd, "author", JStr(<<>>))),
                               body |-> body.val,
                               score |-> Native(Get(cd, "score", JNum(0))),
                               id |-> Native(Get(cd, "id", JStr(<<>>)))]
                         replies == Get(cd, "replies", JNull)
                     IN IF replies.k # "obj" THEN Ok(<<c>>)
                        ELSE LET sub == WalkListing(replies) IN
                            IF sub.raises THEN sub ELSE Ok(<<c>> \o sub.val)
        ELSE IF kind = JStr(ListingKind) THEN WalkListing(node)
        ELSE Ok(<<>>)

\* what fetch_reddit handed back, as line 52 tells values apart: None, a list
\* of two elements or more, or another value
KindOf(data) ==
    IF data = JNull THEN "None"
    ELSE IF data.k = "list" /\ Len(data.l) >= 2 THEN "list2"
    ELSE "other"

\* fetch_comments_for_post without the guard of lines 52-53: data[1] is
\* evaluated on whatever fetch_reddit handed back
fetch_comments_for_post_unguarded(resp) ==
    LET f == fetch_reddit(resp) IN
    IF f.raises THEN f
    ELSE LET data == f.val.data IN
        IF data.k = "list" /\ Len(data.l) >= 2
        THEN LET w == walk_comments(data.l[2]) IN
            IF w.raises THEN w
            ELSE Ok([comments |-> w.val, slept |-> f.val.slept])
        ELSE Raise(IF data.k = "list" THEN "IndexError"
                   ELSE IF data.k = "obj" THEN "KeyError" ELSE "TypeError")

\* fetch_comments_for_post: the comments of a thread; whether the delay was slept
fetch_comments_for_post(resp) ==
    LET f == fetch_reddit(resp) IN
    IF f.raises THEN f
    ELSE LET data == f.val.data IN
        IF ~Truthy(data) \/ data.k # "list" \/ Len(data.l) < 2
        THEN Ok([comments |-> <<>>, slept |-> f.val.slept])
        ELSE LET w == walk_comments(data.l[2]) IN
            IF w.raises THEN w
            ELSE Ok([comments |-> w.val, slept |-> f.val.slept])

(***************************************************************************)
(* monitor.py: classifier                                                  *)
(***************************************************************************)
Space == <<" ">>

\* (post["title"] + " " + post["selftext"]).lower()
PostText(post) == Lower(post.title \o Space \o post.selftext)

\* is_relevant without the lower() of line 12
is_relevant_as_spelled(post, high_value_subreddits, relevance_keywords) ==
    \/ post.subreddit \in high_value_subreddits
    \/ AnyIn(relevance_keywords, PostText(post))

is_relevant(post, high_value_subreddits, relevance_keywords) ==
    \/ Lower(post.subreddit) \in high_value_subreddits
    \/ AnyIn(relevance_keywords, PostText(post))

RECURSIVE JoinBodies(_)
\* " ".join(c["body"].lower() for c in comments)
JoinBodies(comments) ==
    IF comments = <<>> THEN <<>>
    ELSE IF Len(comments) = 1 THEN Lower(comments[1].body)
    ELSE Lower(comments[1].body) \o Space \o JoinBodies(Tail(comments))

\* classify_priority with the test of lines 28-31 ahead of the test of
\* line 24, which it then skips
classify_priority_replies_first(post, brand_aliases, competitor_names, comments) ==
    IF comments # <<>> /\ AnyIn(brand_aliases, JoinBodies(comments)) THEN "URGENT"
    ELSE IF comments = <<>> /\ AnyIn(brand_aliases, PostText(post)) THEN "URGENT"
    ELSE IF AnyIn(competitor_names, PostText(post)) THEN "HIGH"
    ELSE "MEDIUM"

\* classify_priority; comments = <<>> stands for both None and []
classify_priority(post, brand_aliases, competitor_names, comments) ==
    IF AnyIn(brand_aliases, PostText(post)) THEN "URGENT"
    ELSE IF comments # <<>> /\ AnyIn(brand_aliases, JoinBodies(comments)) THEN "URGENT"
    ELSE IF AnyIn(competitor_names, PostText(post)) THEN "HIGH"
    ELSE "MEDIUM"

\* [b for b in terms if b in text]
Mentioned(terms, text) ==
    SelectSeqIdx(terms, {i \in 1..Len(terms) : Contains(text, terms[i])}, 1)

\* scan_comments_for_brands with line 48 testing mentioned_brand alone
scan_comments_for_brands_brand_only(comments, brand_aliases, competitor_names) ==
    LET entry(c) == [author |-> c.author, score |-> c.score,
                     rise_mentions |-> Mentioned(brand_aliases, Lower(c.body)),
                     competitor_mentions |-> Mentioned(competitor_names, Lower(c.body)),
                     excerpt |-> Take(c.body, 300)]
    IN SelectSeqIdx([i \in 1..Len(comments) |-> entry(comments[i])],
                    {i \in 1..Len(comments) :
                        Mentioned(brand_aliases, Lower(comments[i].body)) # <<>>}, 1)

RECURSIVE scan_comments_for_brands(_, _, _)
scan_comments_for_brands(comments, brand_aliases, competitor_names) ==
    IF comments = <<>> THEN <<>>
    ELSE LET c == Head(comments)
             body_lower == Lower(c.body)
             mentioned_brand == Mentioned(brand_aliases, body_lower)
             mentioned_competitors == Mentioned(competitor_names, body_lower)
             rest == scan_comments_for_brands(Tail(comments), brand_aliases,
                                              competitor_names)
         IN IF mentioned_brand # <<>> \/ mentioned_competitors # <<>>
            THEN <<[author |-> c.author, score |-> c.score,
                    rise_mentions |-> mentioned_brand,
                    competitor_mentions |-> mentioned_competitors,
                    excerpt |-> Take(c.body, 300)]>> \o rest
            ELSE rest

priority_order(p) ==
    CASE p = "URGENT" -> 0 [] p = "HIGH" -> 1 [] OTHER -> 2

\* the sort key of line 131, compared lexicographically
KeyLeq(x, y) ==
    \/ priority_order(x.priority) < priority_order(y.priority)
    \/ /\ priority_order(x.priority) = priority_order(y.priority)
       /\ -(x.score + x.num_comments) <= -(y.score + y.num_comments)

RECURSIVE SortPosts(_)
\* list.sort(key=...): stable, so an element goes after the equal ones before it
SortPosts(ps) ==
    IF ps = <<>> THEN <<>>
    ELSE LET n == Len(ps)
             x == ps[n]
             sorted == SortPosts(SubSeq(ps, 1, n - 1))
             k == Cardinality({i \in 1..(n - 1) : KeyLeq(sorted[i], x)})
         IN SubSeq(sorted, 1, k) \o <<x>> \o SubSeq(sorted, k + 1, n - 1)

\* lines 110-114 without the test of line 112: a later post of an id
\* replaces the one stored, in the place of the first
Dedup_overwriting(ps, seen) ==
    LET firsts == {i \in 1..Len(ps) : \A j \in 1..(i - 1) : ps[j].id # ps[i].id}
        last(i) == ps[CHOOSE k \in 1..Len(ps) :
                        /\ ps[k].id = ps[i].id
                        /\ \A l \in (k + 1)..Len(ps) : ps[l].id # ps[i].id]
    IN SelectSeqIdx([i \in 1..Len(ps) |-> last(i)], firsts, 1)

RECURSIVE Dedup(_, _)
\* lines 110-114: the first post of each id, in order of first occurrence
Dedup(ps, seen) ==
    IF ps = <<>> THEN <<>>
    ELSE IF Head(ps).id \in seen THEN Dedup(Tail(ps), seen)
    ELSE <<Head(ps)>> \o Dedup(Tail(ps), seen \cup {Head(ps).id})

\* [x for x in s if x in good]
Filter(s, good) == SelectSeqIdx(s, {i \in 1..Len(s) : s[i] \in good}, 1)

\* the elements of s that are URGENT by their title and body alone
Urgent_without_replies(s) ==
    {p \in Range(s) : AnyIn(LowerAll(cfg.brand.aliases), PostText(p))}

\* the elements of s that are URGENT, HIGH, MEDIUM posts
Urgent(s) == {p \in Range(s) : p.priority = "URGENT"}
High(s) == {p \in Range(s) : p.priority = "HIGH"}
Medium(s) == {p \in Range(s) : p.priority = "MEDIUM"}

(***************************************************************************)
(* state.py                                                                *)
(***************************************************************************)
\* The state file holds the text json.dump writes, as a sequence of tokens:
\* the opening `{"seen_post_ids": [`, one token per seen id, the end of the
\* list, last_run, the closing brace.  A file cut short is a strict prefix of
\* that sequence.  A JSON object without the list opens with the brace alone;
\* the text `null` is one token.
TokOpen == [t |-> "{"]
TokBrace == [t |-> "{ "]
TokNull == [t |-> "null"]
TokId(id) == [t |-> "id", v |-> id]
TokEndList == [t |-> "]"]
TokLastRun(ts) == [t |-> "last_run", v |-> ts]
TokClose == [t |-> "}"]

\* json.dump(state, f, indent=2)
Dump(state) ==
    <<TokOpen>> \o [i \in 1..Len(state.seen_post_ids) |-> TokId(state.seen_post_ids[i])]
        \o <<TokEndList, TokLastRun(state.last_run), TokClose>>

\* json.load(f)
Parse(tokens) ==
    LET n == Len(tokens) IN
    IF /\ n >= 4
       /\ tokens[1] = TokOpen
       /\ tokens[n] = TokClose
       /\ tokens[n - 1].t = "last_run"
       /\ tokens[n - 2] = TokEndList
       /\ \A i \in 2..(n - 3) : tokens[i].t = "id"
    THEN Ok([seen_post_ids |-> [i \in 1..(n - 4) |-> tokens[i + 1].v],
             last_run |-> tokens[n - 1].v])
    ELSE IF n = 3 /\ tokens[1] = TokBrace /\ tokens[2].t = "last_run"
                  /\ tokens[3] = TokClose
    THEN Ok([last_run |-> tokens[2].v])
    ELSE IF tokens = <<TokNull>>
    THEN Ok([json |-> "null"])
    ELSE Raise("JSONDecodeError")

NoFile == [exists |-> FALSE, tokens |-> <<>>]
File(tokens) == [exists |-> TRUE, tokens |-> tokens]
FreshState == [seen_post_ids |-> <<>>, last_run |-> "None"]

\* load_state without the default of line 12
load_state_file_required(file) ==
    IF file.exists THEN Parse(file.tokens) ELSE Raise("FileNotFoundError")

\* load_state with the default of line 12 also for a file json.load rejects
load_state_forgiving(file) ==
    IF file.exists /\ ~Parse(file.tokens).raises THEN Parse(file.tokens)
    ELSE Ok(FreshState)

load_state(file) ==
    IF file.exists THEN Parse(file.tokens) ELSE Ok(FreshState)

trim_seen_ids(state, max_ids) ==
    LET ids == state.seen_post_ids IN
    IF Len(ids) > max_ids
    THEN [state EXCEPT !.seen_post_ids = LastN(ids, max_ids)]
    ELSE state

(***************************************************************************)
(* The configuration and the platform the model runs against.              *)
(***************************************************************************)
DefaultCfg ==
    [brand |-> [name |-> <<"W","c","o">>, aliases |-> << <<"W","c","o">> >>],
     competitors |-> [names |-> << <<"R","i","v">> >>],
     subreddits |-> [high_value |-> << <<"S","y","s">> >>],
     keywords |-> [relevance |-> << <<"f","e","e">> >>],
     queries |-> [daily |-> <<[label |-> "q1"]>>, weekly |-> <<[label |-> "q2"]>>],
     settings |-> [max_comments_to_fetch |-> 1, min_comments_for_fetch |-> 2]]

\* lines 63-66, 72-73
brand_aliases == LowerAll(cfg.brand.aliases)
competitor_names == LowerAll(cfg.competitors.names)
high_value_subs == Range(LowerAll(cfg.subreddits.high_value))
relevance_kw == LowerAll(cfg.keywords.relevance)
max_comments == cfg.settings.max_comments_to_fetch
min_comments == cfg.settings.min_comments_for_fetch

Modes == {"daily", "weekly", "all"}

\* the modes the runs of Spec and SpecRun are started in: the narrow one and
\* one of the two broad ones, which lines 93-95 do not tell apart; SpecTwice
\* starts its runs in all three
SpecModes == {"daily", "weekly"}

\* lines 92-94
QueriesOf(m) ==
    cfg.queries.daily \o (IF m \in {"weekly", "all"} THEN cfg.queries.weekly ELSE <<>>)

\* line 95 with the long window for every mode
TimeFilterOf_always_month(m) == "month"

\* line 95
TimeFilterOf(m) == IF m = "daily" THEN "week" ELSE "month"

\* the posts the platform holds, as children of a search listing
Child(id, subreddit, title, selftext, score, num_comments) ==
    JObj([kind |-> JStr(<<"t","3">>),
          data |-> JObj([id |-> JStr(id), subreddit |-> JStr(subreddit),
                         title |-> JStr(title), selftext |-> JStr(selftext),
                         author |-> JStr(<<"u">>), score |-> JNum(score),
                         num_comments |-> JNum(num_comments)])])

IdA == <<"a">>
IdB == <<"b">>
IdC == <<"c">>
Ids == {IdA, IdB, IdC}

\* further posts: one with the text of IdB and no comments, one of a
\* high-value subreddit that names nobody, and the two of the scenario of the
\* "widgetco" configuration
IdD == <<"d">>
IdM == <<"m">>
IdX == <<"x">>
IdY == <<"y">>

Sysadmin == <<"s","y","s","a","d","m","i","n">>
Random == <<"r","a","n","d","o","m">>
Widgetco == <<"w","i","d","g","e","t","c","o">>
Pricing == <<"p","r","i","c","i","n","g">>
PricingIsRough == <<"w","i","d","g","e","t","c","o"," ","p","r","i","c","i","n","g"," ","i","s"," ","r","o","u","g","h">>

Platform(id) ==
    CASE id = IdA -> Child(IdA, <<"S","y","s">>, <<"W","c","o">>, <<>>, 5, 3)
      [] id = IdB -> Child(IdB, <<"x">>, <<"R","i","v">>, <<"F","e","e">>, 2, 4)
      [] id = IdC -> Child(IdC, <<"x">>, <<"h","i">>, <<>>, 1, 0)
      [] id = IdD -> Child(IdD, <<"x">>, <<"R","i","v">>, <<"F","e","e">>, 9, 0)
      [] id = IdM -> Child(IdM, <<"S","y","s">>, <<"h","i">>, <<>>, 1, 3)
      [] id = IdX -> Child(IdX, Sysadmin, <<"h","m">>, PricingIsRough, 1, 0)
      [] id = IdY -> Child(IdY, Random, <<"h","i">>, <<>>, 1, 0)

ListingOf(children) ==
    JObj([kind |-> JStr(ListingKind), data |-> JObj([children |-> JList(children)])])

\* the id sequences a search can answer with: no id twice, at most MaxResults
IdSeqs ==
    UNION {{q \in [1..n -> Ids] : \A i, j \in 1..n : i # j => q[i] # q[j]} :
           n \in 0..MaxResults}

SearchListing(q) == ListingOf([i \in 1..Len(q) |-> Platform(q[i])])

\* a comment node of a thread
Comment(body, replies) ==
    JObj([kind |-> JStr(T1),
          data |-> JObj([author |-> JStr(<<"v">>), body |-> JStr(body),
                         score |-> JNum(1), id |-> JStr(<<"k">>),
                         replies |-> replies])])

Thread(children) == JList(<<ListingOf(<<>>), ListingOf(children)>>)

\* what the platform answers to a search in a run
SearchResponses ==
    {Timeout, HttpError, BadJson}
        \cup {Body(SearchListing(q)) : q \in IdSeqs}
        \cup {Body(JObj([data |-> JNull])), Body(JNum(5))}

\* what the platform answers to a thread fetch in a run
CommentResponses ==
    {Timeout,
     Body(Thread(<<Comment(<<"o","k">>, JStr(<<>>))>>)),
     Body(Thread(<<Comment(<<"n","o">>,
                           ListingOf(<<Comment(<<"t","r","y"," ","W","C","O">>, JNull)>>))>>)),
     Body(Thread(<<Comment(<<"o","k">>, JObj([data |-> JNull]))>>))}

(***************************************************************************)
(* report.py                                                               *)
(***************************************************************************)
RECURSIVE SortByEngagement(_)
\* sorted(ps, key=lambda x: x["score"] + x["num_comments"], reverse=True)
SortByEngagement(ps) ==
    IF ps = <<>> THEN <<>>
    ELSE LET n == Len(ps)
             x == ps[n]
             sorted == SortByEngagement(SubSeq(ps, 1, n - 1))
             k == Cardinality({i \in 1..(n - 1) :
                      sorted[i].score + sorted[i].num_comments
                          >= x.score + x.num_comments})
         IN SubSeq(sorted, 1, k) \o <<x>> \o SubSeq(sorted, k + 1, n - 1)

\* generate_report with the URGENT section only
generate_report_urgent_only(posts) ==
    LET blocks == Filter(posts, Urgent(posts))
    IN [i \in 1..Len(blocks) |-> [id |-> blocks[i].id, priority |-> blocks[i].priority]]

\* generate_report: the post blocks of the report, in the order written
generate_report(posts) ==
    LET blocks == Filter(posts, Urgent(posts))
                    \o SortByEngagement(Filter(posts, High(posts)))
                    \o SortByEngagement(Filter(posts, Medium(posts)))
    IN [i \in 1..Len(blocks) |-> [id |-> blocks[i].id, priority |-> blocks[i].priority]]

(***************************************************************************)
(* monitor.py: run_monitor as a state machine                              *)
(***************************************************************************)
VARIABLES
    max_seen,            \* settings["max_seen_ids"]
    state_file,          \* data/monitor_state.json
    date_report,         \* ids of the post blocks in data/reports/<date>.md
    batches,             \* the ids of the state file by the run that inserted
                         \* them, oldest run first
    pc,                  \* where run_monitor stands
    exc,                 \* what ended the last run early
    mode,
    st,                  \* the state dict `st`
    seen_ids,            \* the set `seen_ids`
    searches,            \* per query issued: label, outcome, labelled posts
    new_posts,
    posts_with_comments,
    brand_findings,
    summary,             \* the dict run_monitor returns
    loads,               \* calls of load_state in this run
    saves,               \* calls of save_state in this run
    file_at_start,       \* the state file as this run found it
    net,                 \* the calls of fetch_reddit in this run, in order:
                         \* what for, whether the rate delay was slept, and
                         \* what kind of value came back
    prev,                \* mode and search results of the run before
    runs,                \* runs started, where they are counted
    call,                \* a call of a function on its own
    ret                  \* what that call returned

persistent == <<cfg, max_seen, state_file, date_report, batches>>
locals == <<mode, st, seen_ids, searches, new_posts, posts_with_comments,
            brand_findings, summary, loads, saves, file_at_start, net>>
history == <<prev, runs>>
pure == <<call, ret>>
vars == <<cfg, max_seen, state_file, date_report, batches, pc, exc, mode, st, seen_ids,
          searches, new_posts, posts_with_comments, brand_findings, summary,
          loads, saves, file_at_start, net, prev, runs, call, ret>>

RunTime == "run_time"
NoExc == [at |-> "none", exc |-> "none", status |-> "none"]
NoSummary == [new_post_count |-> -1]
NoPrev == [mode |-> "none", results |-> <<>>]
NoCall == [fn |-> "none"]
NoRet == [returned |-> FALSE]

InRun == {"search", "process", "comments", "report", "update", "save", "write",
          "summary"}

\* orders in which list(seen_ids) can enumerate a set
Orders(S) ==
    {o \in [1..Cardinality(S) -> S] :
        \A i, j \in 1..Cardinality(S) : i # j => o[i] # o[j]}

IdsOf(ps) == {ps[i].id : i \in 1..Len(ps)}

\* all_posts of lines 98-107
Fetched(ss) == Flatten([i \in 1..Len(ss) |-> ss[i].posts])

\* all_posts of line 114
Unique(ss) == Dedup(Fetched(ss), {})

\* the loop of lines 99-107 left after its first iteration
AllSearched_after_first(ss, m) == Len(ss) >= 1

\* the loop of lines 99-107 is over
AllSearched(ss, m) == Len(ss) = Len(QueriesOf(m))

\* lines 117-132 without the filter of line 122
NewPosts_unfiltered(all_posts, seen) ==
    LET unseen == Filter(all_posts, {p \in Range(all_posts) : p.id \notin seen})
    IN SortPosts([i \in 1..Len(unseen) |->
            unseen[i] @@ [priority |->
                classify_priority(unseen[i], brand_aliases, competitor_names, <<>>)]])

\* lines 117-132 without the filter of line 118
NewPosts_seen_included(all_posts, seen) ==
    LET fresh == Filter(all_posts, {p \in Range(all_posts) :
                                   is_relevant(p, high_value_subs, relevance_kw)})
    IN SortPosts([i \in 1..Len(fresh) |->
            fresh[i] @@ [priority |->
                classify_priority(fresh[i], brand_aliases, competitor_names, <<>>)]])

\* lines 117-132
NewPosts(all_posts, seen) ==
    LET unseen == Filter(all_posts, {p \in Range(all_posts) : p.id \notin seen})
        fresh == Filter(unseen, {p \in Range(unseen) :
                                   is_relevant(p, high_value_subs, relevance_kw)})
    IN SortPosts([i \in 1..Len(fresh) |->
            fresh[i] @@ [priority |->
                classify_priority(fresh[i], brand_aliases, competitor_names, <<>>)]])

\* comment_worthy of line 137 iterated without the slice of line 140
CommentWorthy_unsliced(posts) ==
    Filter(posts, {p \in Range(posts) : p.num_comments > min_comments})

\* comment_worthy[:max_comments] of lines 137-140
CommentWorthy(posts) ==
    Take(Filter(posts, {p \in Range(posts) : p.num_comments > min_comments}),
         max_comments)

\* the ids a parseable state file holds
SeenOnDisk(file) ==
    IF /\ file.exists
       /\ ~Parse(file.tokens).raises
       /\ "seen_post_ids" \in DOMAIN Parse(file.tokens).val
    THEN Range(Parse(file.tokens).val.seen_post_ids)
    ELSE {}

\* a state file that is a JSON object without the list of seen ids
KeylessFile == File(<<TokBrace, TokLastRun(RunTime), TokClose>>)

\* a state file that holds the JSON text `null`
NullFile == File(<<TokNull>>)

ResetLocals ==
    /\ mode' = "none"
    /\ st' = FreshState
    /\ seen_ids' = {}
    /\ searches' = <<>>
    /\ new_posts' = <<>>
    /\ posts_with_comments' = <<>>
    /\ brand_findings' = <<>>
    /\ summary' = NoSummary
    /\ loads' = 0
    /\ saves' = 0
    /\ file_at_start' = state_file
    /\ net' = <<>>

\* the run ends with an exception or with the process killed
Abort(e) ==
    /\ pc' = "aborted"
    /\ exc' = e
    /\ ResetLocals

Init ==
    /\ cfg = DefaultCfg
    /\ max_seen \in 0..MaxCap
    /\ state_file \in {NoFile, KeylessFile, NullFile}
    /\ date_report = {}
    /\ batches = <<>>
    /\ pc = "idle"
    /\ exc = NoExc
    /\ mode = "none"
    /\ st = FreshState
    /\ seen_ids = {}
    /\ searches = <<>>
    /\ new_posts = <<>>
    /\ posts_with_comments = <<>>
    /\ brand_findings = <<>>
    /\ summary = NoSummary
    /\ loads = 0
    /\ saves = 0
    /\ file_at_start = state_file
    /\ net = <<>>
    /\ prev = NoPrev
    /\ runs = 0
    /\ call = NoCall
    /\ ret = NoRet

\* lines 59-95: run_monitor(cfg, m) up to the selection of the queries
StartRun(m) ==
    /\ UNCHANGED <<persistent, pure>>
    /\ LET ld == load_state(state_file) IN
        IF ld.raises
        THEN Abort([at |-> "load_state", exc |-> ld.exc, status |-> "none"])
        ELSE IF "seen_post_ids" \notin DOMAIN ld.val
        THEN Abort([at |-> "run_monitor",
                    exc |-> IF "json" \in DOMAIN ld.val THEN "TypeError" ELSE "KeyError",
                    status |-> "none"])
        ELSE /\ pc' = "search"
             /\ exc' = NoExc
             /\ mode' = m
             /\ st' = ld.val
             /\ seen_ids' = Range(ld.val.seen_post_ids)
             /\ searches' = <<>>
             /\ new_posts' = <<>>
             /\ posts_with_comments' = <<>>
             /\ brand_findings' = <<>>
             /\ summary' = NoSummary
             /\ loads' = 1
             /\ saves' = 0
             /\ file_at_start' = state_file
             /\ net' = <<>>

Start(m) ==
    /\ pc \in {"idle", "done", "aborted"}
    /\ StartRun(m)
    /\ UNCHANGED history

\* lines 105-106
Labelled(posts, label) ==
    [i \in 1..Len(posts) |-> posts[i] @@ [query_label |-> label]]

\* lines 99-107: one iteration of the search loop, the platform answering
\* with one of resps
SearchWith(resps) ==
    /\ pc = "search"
    /\ UNCHANGED <<persistent, history, pure>>
    /\ \E resp \in resps :
        LET q == QueriesOf(mode)[Len(searches) + 1]
            r == run_search(resp)
        IN IF r.raises
           THEN Abort([at |-> "run_search", exc |-> r.exc, status |-> resp.status])
           ELSE /\ searches' = Append(searches,
                        [label |-> q.label, time_filter |-> TimeFilterOf(mode),
                         failed |-> resp.status # "ok",
                         posts |-> Labelled(r.val.posts, q.label)])
                /\ net' = Append(net, [call |-> "search", slept |-> r.val.slept,
                                        got |-> KindOf(fetch_reddit(resp).val.data)])
                /\ pc' = IF AllSearched(searches', mode) THEN "process" ELSE "search"
                /\ UNCHANGED <<exc, mode, st, seen_ids, new_posts, posts_with_comments,
                               brand_findings, summary, loads, saves, file_at_start>>

Search ==
    /\ runs < 2
    /\ SearchWith(SearchResponses)

\* lines 109-138
Process ==
    /\ pc = "process"
    /\ new_posts' = NewPosts(Unique(searches), seen_ids)
    /\ pc' = IF CommentWorthy(new_posts') = <<>> THEN "report" ELSE "comments"
    /\ UNCHANGED <<persistent, history, pure, exc, mode, st, seen_ids, searches,
                   posts_with_comments, brand_findings, summary, loads, saves,
                   file_at_start, net>>

\* lines 145-146 left out: the priority assigned at line 127 stays
Reclassified_never(posts, post, comments) == posts

\* lines 145-146: the priority of `post` assigned again, with its comments
Reclassified(posts, post, comments) ==
    [j \in 1..Len(posts) |->
        IF posts[j].id = post.id
        THEN [posts[j] EXCEPT !.priority =
                classify_priority(post, brand_aliases, competitor_names, comments)]
        ELSE posts[j]]

\* lines 140-152: one iteration of the comment loop, the platform answering
\* with one of resps
FetchCommentsWith(resps) ==
    /\ pc = "comments"
    /\ UNCHANGED <<persistent, history, pure>>
    /\ \E resp \in resps :
        LET targets == CommentWorthy(new_posts)
            i == Len(posts_with_comments) + 1
            post == targets[i]
            r == fetch_comments_for_post(resp)
        IN IF r.raises
           THEN Abort([at |-> "fetch_comments_for_post", exc |-> r.exc,
                       status |-> resp.status])
           ELSE LET comments == r.val.comments
                    findings == scan_comments_for_brands(comments, brand_aliases,
                                                         competitor_names)
                IN /\ posts_with_comments' =
                        Append(posts_with_comments, [id |-> post.id, comments |-> comments])
                   /\ new_posts' = Reclassified(new_posts, post, comments)
                   /\ brand_findings' =
                        IF findings # <<>>
                        THEN Append(brand_findings, [id |-> post.id, findings |-> findings])
                        ELSE brand_findings
                   /\ net' = Append(net, [call |-> "comments", slept |-> r.val.slept,
                                           got |-> KindOf(fetch_reddit(resp).val.data)])
                   /\ pc' = IF i = Len(targets) THEN "report" ELSE "comments"
                   /\ UNCHANGED <<exc, mode, st, seen_ids, searches, summary, loads,
                                  saves, file_at_start>>

FetchComments == FetchCommentsWith(CommentResponses)

\* lines 154-171
WriteReports ==
    /\ pc = "report"
    /\ date_report' = date_report \cup IdsOf(generate_report(new_posts))
    /\ pc' = "update"
    /\ UNCHANGED <<cfg, max_seen, state_file, batches, history, pure, exc, locals>>

\* the loop of lines 174-175 left out
SeenAfter_not_extended(seen, all_posts) == seen

\* the loop of lines 174-175 run over new_posts instead of all_posts
SeenAfter_reported_only(seen, all_posts) ==
    seen \cup {all_posts[i].id : i \in {j \in 1..Len(all_posts) :
        /\ all_posts[j].id \notin seen
        /\ is_relevant(all_posts[j], high_value_subs, relevance_kw)}}

\* lines 174-175: seen_ids after the loop that adds the ids of all_posts
SeenAfter(seen, all_posts) == seen \cup IdsOf(all_posts)

\* lines 173-178
UpdateState ==
    /\ pc = "update"
    /\ seen_ids' = SeenAfter(seen_ids, Unique(searches))
    /\ \E order \in Orders(seen_ids') :
        st' = trim_seen_ids([seen_post_ids |-> order, last_run |-> RunTime], max_seen)
    /\ pc' = "save"
    /\ UNCHANGED <<persistent, history, pure, exc, mode, searches, new_posts,
                   posts_with_comments, brand_findings, summary, loads, saves,
                   file_at_start, net>>

\* save_state, line 18: open(state_file, "w") truncates the file
SaveOpen ==
    /\ pc = "save"
    /\ state_file' = File(<<>>)
    /\ saves' = saves + 1
    /\ pc' = "write"
    /\ UNCHANGED <<cfg, max_seen, date_report, batches, history, pure, exc, mode, st,
                   seen_ids, searches, new_posts, posts_with_comments, brand_findings,
                   summary, loads, file_at_start, net>>

\* the ids of the file by inserting run, once the file holds `kept`
Rebatch(old, kept) ==
    LET surviving == [i \in 1..Len(old) |-> old[i] \cap kept]
        fresh == kept \ UNION Range(old)
    IN Filter(surviving, Range(surviving) \ {{}}) \o (IF fresh = {} THEN <<>> ELSE <<fresh>>)

\* save_state, line 19: json.dump reaches the file one full buffer at a time,
\* the rest when the file is closed
SaveWrite ==
    /\ pc = "write"
    /\ LET n == Len(state_file.tokens) + BufferTokens IN
        IF n >= Len(Dump(st))
        THEN /\ state_file' = File(Dump(st))
             /\ pc' = "summary"
             /\ batches' = Rebatch(batches, Range(st.seen_post_ids))
        ELSE /\ state_file' = File(Take(Dump(st), n))
             /\ UNCHANGED <<pc, batches>>
    /\ UNCHANGED <<cfg, max_seen, date_report, history, pure, exc, locals>>

\* lines 182-211
Finish ==
    /\ pc = "summary"
    /\ summary' = [new_post_count |-> Len(new_posts),
                   has_urgent |-> Urgent(new_posts) # {},
                   urgent_count |-> Len(Filter(new_posts, Urgent(new_posts))),
                   high_count |-> Len(Filter(new_posts, High(new_posts))),
                   run_mode |-> mode,
                   posts |-> new_posts,
                   posts_with_comments |-> posts_with_comments]
    /\ pc' = "done"
    /\ UNCHANGED <<persistent, history, pure, exc, mode, st, seen_ids, searches,
                   new_posts, posts_with_comments, brand_findings, loads, saves,
                   file_at_start, net>>

\* the process is killed in the middle of a run
Kill ==
    /\ pc \in InRun
    /\ Abort([at |-> "kill", exc |-> "killed", status |-> "none"])
    /\ UNCHANGED <<persistent, history, pure>>

Next ==
    \/ \E m \in SpecModes : Start(m)
    \/ Search
    \/ Process
    \/ FetchComments
    \/ WriteReports
    \/ UpdateState
    \/ SaveOpen
    \/ SaveWrite
    \/ Finish
    \/ Kill

Spec == Init /\ [][Next]_vars

(***************************************************************************)
(* Two runs in succession against an unchanged platform.                   *)
(***************************************************************************)
\* every injective sequence of ids
AllIdSeqs ==
    UNION {{q \in [1..n -> Ids] : \A i, j \in 1..n : i # j => q[i] # q[j]} :
           n \in 0..Cardinality(Ids)}

\* the post dict of an id of the platform
PostOfId(id) == PostOf(Platform(id)).val

RelevantId(id) == is_relevant(PostOfId(id), high_value_subs, relevance_kw)

\* the state files earlier runs under max_seen can have left
PriorFiles(cap) ==
    {NoFile} \cup
    {File(Dump([seen_post_ids |-> q, last_run |-> RunTime])) :
        q \in {r \in AllIdSeqs : cap = 0 \/ Len(r) <= cap}}

InitTwice ==
    /\ cfg = DefaultCfg
    /\ max_seen \in 0..MaxCap
    /\ state_file \in PriorFiles(max_seen)
    /\ date_report = {x \in SeenOnDisk(state_file) : RelevantId(x)}
    /\ batches = IF SeenOnDisk(state_file) = {} THEN <<>> ELSE <<SeenOnDisk(state_file)>>
    /\ pc = "idle"
    /\ exc = NoExc
    /\ mode = "none"
    /\ st = FreshState
    /\ seen_ids = {}
    /\ searches = <<>>
    /\ new_posts = <<>>
    /\ posts_with_comments = <<>>
    /\ brand_findings = <<>>
    /\ summary = NoSummary
    /\ loads = 0
    /\ saves = 0
    /\ file_at_start = state_file
    /\ net = <<>>
    /\ prev = NoPrev
    /\ runs = 0
    /\ call = NoCall
    /\ ret = NoRet

StartFirst(m) ==
    /\ pc = "idle"
    /\ runs = 0
    /\ StartRun(m)
    /\ runs' = 1
    /\ prev' = prev

\* the second run starts when the first has returned, in the same mode
StartSecond ==
    /\ pc = "done"
    /\ runs = 1
    /\ StartRun(mode)
    /\ runs' = 2
    /\ prev' = [mode |-> mode,
                results |-> [i \in 1..Len(searches) |-> searches[i].posts],
                loaded |-> SeenOnDisk(file_at_start)]

\* a search of the second run: the platform answers with the items it
\* answered the same query with in the first run
SearchAgain ==
    /\ runs = 2
    /\ SearchWith({resp \in SearchResponses :
            LET r == run_search(resp)
                k == Len(searches) + 1
            IN /\ ~r.raises
               /\ Labelled(r.val.posts, QueriesOf(mode)[k].label) = prev.results[k]})

NextTwice ==
    \/ \E m \in Modes : StartFirst(m)
    \/ Search
    \/ StartSecond
    \/ SearchAgain
    \/ Process
    \/ FetchComments
    \/ WriteReports
    \/ UpdateState
    \/ SaveOpen
    \/ SaveWrite
    \/ Finish

SpecTwice == InitTwice /\ [][NextTwice]_vars

(***************************************************************************)
(* One run under several configurations, against the wider platform.       *)
(***************************************************************************)
\* DefaultCfg with a deep-fetch budget of two
TwoFetchCfg == [DefaultCfg EXCEPT !.settings.max_comments_to_fetch = 2]

\* a configuration whose brand alias is "widgetco"
WidgetcoCfg(high_value, relevance) ==
    [DefaultCfg EXCEPT !.brand = [name |-> Widgetco, aliases |-> <<Widgetco>>],
                       !.subreddits.high_value = high_value,
                       !.keywords.relevance = relevance]

\* TwoFetchCfg with two brand aliases and two competitor names
TwoNamesCfg ==
    [TwoFetchCfg EXCEPT !.brand.aliases = << <<"W","c","o">>, <<"W","c">> >>,
                        !.competitors.names = << <<"R","i","v">>, <<"A","c","e">> >>]

RunCfgs ==
    {DefaultCfg, TwoFetchCfg, TwoNamesCfg,
     WidgetcoCfg(<<Sysadmin>>, DefaultCfg.keywords.relevance),
     WidgetcoCfg(<<>>, DefaultCfg.keywords.relevance),
     WidgetcoCfg(<<Sysadmin, Random>>, DefaultCfg.keywords.relevance),
     WidgetcoCfg(<<>>, <<Pricing>>)}

\* listings of two posts, the same post twice among them
WideListings ==
    {<<>>, <<IdB>>, <<IdX, IdY>>, <<IdA, IdB>>, <<IdD, IdB>>, <<IdM, IdB>>,
     <<IdA, IdA>>}

WideResponses == {Timeout} \cup {Body(SearchListing(q)) : q \in WideListings}

InitRun ==
    /\ cfg \in RunCfgs
    /\ max_seen \in 0..MaxCap
    /\ state_file \in {NoFile, File(Dump([seen_post_ids |-> <<IdA>>, last_run |-> RunTime]))}
    /\ date_report = {x \in SeenOnDisk(state_file) : RelevantId(x)}
    /\ batches = IF SeenOnDisk(state_file) = {} THEN <<>> ELSE <<SeenOnDisk(state_file)>>
    /\ pc = "idle"
    /\ exc = NoExc
    /\ mode = "none"
    /\ st = FreshState
    /\ seen_ids = {}
    /\ searches = <<>>
    /\ new_posts = <<>>
    /\ posts_with_comments = <<>>
    /\ brand_findings = <<>>
    /\ summary = NoSummary
    /\ loads = 0
    /\ saves = 0
    /\ file_at_start = state_file
    /\ net = <<>>
    /\ prev = NoPrev
    /\ runs = 0
    /\ call = NoCall
    /\ ret = NoRet

\* a search of the run, answered by the wider platform
SearchWide ==
    /\ runs = 1
    /\ SearchWith(WideResponses)

\* a thread of three replies: one names a competitor, one names nobody, one
\* names the brand and a competitor
ThreeReplies ==
    Thread(<<Comment(<<"R","i","v">>, JStr(<<>>)),
             Comment(<<"o","k">>, JStr(<<>>)),
             Comment(<<"W","c"," ","a","c","e">>, JStr(<<>>))>>)

\* the answers of the run, a thread of three replies, and two answers that
\* are no thread: a listing on its own, and a list of one listing
WideCommentResponses ==
    CommentResponses \cup
        {Body(ThreeReplies), Body(ListingOf(<<>>)), Body(JList(<<ListingOf(<<>>)>>))}

\* a thread fetch of the run, answered by the wider platform
FetchWide == FetchCommentsWith(WideCommentResponses)

NextRun ==
    \/ \E m \in SpecModes : StartFirst(m)
    \/ SearchWide
    \/ Process
    \/ FetchWide
    \/ WriteReports
    \/ UpdateState
    \/ SaveOpen
    \/ SaveWrite
    \/ Finish

SpecRun == InitRun /\ [][NextRun]_vars

(***************************************************************************)
(* The functions of api.py and state.py called on their own.               *)
(***************************************************************************)
\* bodies of a search answer that are not a listing of posts
OddSearchBodies ==
    {JNull, JBool(TRUE), JBool(FALSE), JNum(0), JNum(5), JStr(<<>>), JStr(DataChars),
     JStr(<<"x">>), JList(<<>>), JList(<<JNum(1)>>), JList(<<JStr(DataChars)>>),
     EmptyObj, JObj([error |-> JNum(429)]),
     JObj([data |-> JNull]), JObj([data |-> JList(<<>>)]), JObj([data |-> JNum(1)]),
     JObj([data |-> EmptyObj]),
     JObj([data |-> JObj([children |-> JNull])]),
     JObj([data |-> JObj([children |-> JList(<<JNum(1)>>)])]),
     JObj([data |-> JObj([children |-> JList(<<Platform(IdA), JNull>>)])]),
     JObj([data |-> JObj([children |-> JList(<<EmptyObj>>)])]),
     JObj([data |-> JObj([children |-> JList(<<JObj([data |-> JNull])>>)])]),
     JObj([data |-> JObj([children |-> JList(<<JObj([data |->
                                            JObj([selftext |-> JNum(5)])])>>)])]),
     JObj([data |-> JObj([children |-> JList(<<JObj([data |->
                                            JObj([selftext |-> JNull])])>>)])])}

\* nodes of a reply tree, well formed or not, without children of their own
LeafNodes ==
    {JNull, JNum(7), JStr(<<"m">>), EmptyObj,
     JObj([kind |-> JStr(<<"m","o","r","e">>), data |-> EmptyObj]),
     JObj([kind |-> JStr(T1)]),
     JObj([kind |-> JStr(T1), data |-> JNull]),
     JObj([kind |-> JStr(ListingKind)]),
     JObj([kind |-> JStr(ListingKind), data |-> JNull]),
     JObj([kind |-> JStr(ListingKind), data |-> JObj([children |-> JNull])]),
     ListingOf(<<>>),
     Comment(<<"x">>, JNull),
     Comment(<<"y">>, JStr(<<>>)),
     Comment(<<"z">>, EmptyObj),
     Comment(<<"w">>, JObj([data |-> JNull])),
     Comment(<<"v">>, JObj([data |-> JObj([children |-> JNum(5)])])),
     JObj([kind |-> JStr(T1), data |-> JObj([body |-> JNum(5)])])}

\* comments with one level of replies below them
NestedNodes ==
    {Comment(<<"p">>, ListingOf(<<n>>)) : n \in LeafNodes}
        \cup {Comment(<<"q">>, ListingOf(<<Comment(<<"r">>, JNull), n>>)) : n \in LeafNodes}

\* bodies of a thread answer
ThreadBodies ==
    {JNull, EmptyObj, JList(<<>>), JList(<<JNum(1)>>), JList(<<ListingOf(<<>>), JNum(5)>>)}
        \cup {JList(<<ListingOf(<<>>), n>>) : n \in LeafNodes}
        \cup {Thread(<<n>>) : n \in LeafNodes \cup NestedNodes}
        \cup {Thread(<<n, Comment(<<"s">>, JNull)>>) : n \in LeafNodes}

\* a post as is_relevant and classify_priority read it
TextPost(subreddit, title, selftext) ==
    [subreddit |-> subreddit, title |-> title, selftext |-> selftext]

\* a reply as classify_priority reads it
Reply(body) == [author |-> <<"v">>, body |-> body, score |-> 1]

\* posts that name the brand, a competitor, both or nobody; one whose title
\* ends and whose body begins with the halves of the alias "w co"
ClassifyPosts ==
    {TextPost(<<"x">>, <<"h","i">>, <<>>),
     TextPost(<<"x">>, <<"W","c","o">>, <<>>),
     TextPost(<<"x">>, <<"h","i">>, <<"r","I","v">>),
     TextPost(<<"x">>, <<"R","i","v">>, <<"a"," ","W","C","O">>),
     TextPost(<<"x">>, <<"w">>, <<"c","o">>)}

\* reply lists: none, replies naming nobody, the brand, a competitor, and
\* two replies of which the first ends and the second begins with the
\* halves of the alias "w co"
ClassifyReplies ==
    {<<>>,
     <<Reply(<<"o","k">>)>>,
     <<Reply(<<"o","k">>), Reply(<<"t","r","y"," ","W","C","O">>)>>,
     <<Reply(<<"R","i","v">>)>>,
     <<Reply(<<"W"," ","c","o">>)>>,
     <<Reply(<<"a"," ","w">>), Reply(<<"c","o"," ","b">>)>>}

ClassifyCalls ==
    {[fn |-> "classify_priority", post |-> p, brand_aliases |-> a,
      competitor_names |-> c, comments |-> r] :
        p \in ClassifyPosts,
        a \in {<< <<"w","c","o">> >>, << <<"w"," ","c","o">> >>},
        c \in {<<>>, << <<"r","i","v">> >>},
        r \in ClassifyReplies}

\* posts of a high-value subreddit and of another one, with a keyword in the
\* title, in the body or nowhere
RelevancePosts ==
    {TextPost(sub, text[1], text[2]) :
        sub \in {<<"S","y","s">>, <<"S","Y","S">>, <<"x">>},
        text \in {<< <<"h","i">>, <<>> >>, << <<"n","o">>, <<"F","e","e">> >>,
                  << <<"a"," ","F","E","E">>, <<>> >>, << <<"n","o">>, <<>> >>}}

RelevantCalls ==
    {[fn |-> "is_relevant", post |-> p, high_value_subreddits |-> h,
      relevance_keywords |-> k] :
        p \in RelevancePosts,
        h \in {{}, {<<"s","y","s">>}},
        k \in {<<>>, << <<"f","e","e">> >>, << <<"z">>, <<"h","i">> >>}}

PureCalls ==
    ClassifyCalls \cup RelevantCalls \cup
    {[fn |-> "run_search", resp |-> r] :
        r \in SearchResponses \cup {Body(j) : j \in OddSearchBodies}}
        \cup {[fn |-> "fetch_comments_for_post", resp |-> r] :
                 r \in {Timeout, HttpError, BadJson} \cup {Body(j) : j \in ThreadBodies}}
        \cup {[fn |-> "trim_seen_ids",
                state |-> [seen_post_ids |-> q, last_run |-> RunTime], max_ids |-> n] :
                 q \in AllIdSeqs, n \in 0..(MaxCap + 1)}

InitPure ==
    /\ call \in PureCalls
    /\ ret = NoRet
    /\ cfg = DefaultCfg
    /\ max_seen = MaxCap
    /\ state_file = NoFile
    /\ date_report = {}
    /\ batches = <<>>
    /\ pc = "idle"
    /\ exc = NoExc
    /\ mode = "none"
    /\ st = FreshState
    /\ seen_ids = {}
    /\ searches = <<>>
    /\ new_posts = <<>>
    /\ posts_with_comments = <<>>
    /\ brand_findings = <<>>
    /\ summary = NoSummary
    /\ loads = 0
    /\ saves = 0
    /\ file_at_start = NoFile
    /\ net = <<>>
    /\ prev = NoPrev
    /\ runs = 0

Returned(v) == [returned |-> TRUE, val |-> v]

CallRunSearch ==
    /\ call.fn = "run_search"
    /\ ~ret.returned
    /\ ret' = Returned(run_search(call.resp))
    /\ UNCHANGED <<persistent, pc, exc, locals, history, call>>

CallFetchComments ==
    /\ call.fn = "fetch_comments_for_post"
    /\ ~ret.returned
    /\ ret' = Returned(fetch_comments_for_post(call.resp))
    /\ UNCHANGED <<persistent, pc, exc, locals, history, call>>

CallTrim ==
    /\ call.fn = "trim_seen_ids"
    /\ ~ret.returned
    /\ ret' = Returned(trim_seen_ids(call.state, call.max_ids))
    /\ UNCHANGED <<persistent, pc, exc, locals, history, call>>

CallClassify ==
    /\ call.fn = "classify_priority"
    /\ ~ret.returned
    /\ ret' = Returned(classify_priority(call.post, call.brand_aliases,
                                         call.competitor_names, call.comments))
    /\ UNCHANGED <<persistent, pc, exc, locals, history, call>>

CallRelevant ==
    /\ call.fn = "is_relevant"
    /\ ~ret.returned
    /\ ret' = Returned(is_relevant(call.post, call.high_value_subreddits,
                                   call.relevance_keywords))
    /\ UNCHANGED <<persistent, pc, exc, locals, history, call>>

NextPure ==
    \/ CallRunSearch
    \/ CallFetchComments
    \/ CallTrim
    \/ CallClassify
    \/ CallRelevant

SpecPure == InitPure /\ [][NextPure]_vars

(***************************************************************************)
(* Properties.                                                             *)
(***************************************************************************)
\* the second of two runs got the answers of the first, in the same mode
SameAsBefore ==
    /\ pc = "done"
    /\ runs = 2
    /\ prev.mode = mode
    /\ [i \in 1..Len(searches) |-> searches[i].posts] = prev.results

\* seen-set and fetched ids of the first run together fit max_seen_ids
FirstRunUntrimmed ==
    Cardinality(prev.loaded \cup IdsOf(Flatten(prev.results))) <= max_seen

\* C1, as stated: whatever max_seen_ids and the number of items, the second of
\* two successive runs in the same mode with the same search results reports
\* zero new items.
C1_SecondRunReportsNothing ==
    SameAsBefore => summary.new_post_count = 0

\* C1, amended: the second of two successive runs in the same mode with the
\* same search results reports zero new items, provided the seen-set the first
\* run loaded and the ids it fetched together number at most max_seen_ids.
C1_SecondRunReportsNothingUntrimmed ==
    (SameAsBefore /\ FirstRunUntrimmed) => summary.new_post_count = 0

\* the first run reported a new relevant post, the second run none
C1_Witness ==
    /\ SameAsBefore
    /\ FirstRunUntrimmed
    /\ \E x \in IdsOf(Flatten(prev.results)) \ prev.loaded : RelevantId(x)
    /\ summary.new_post_count = 0

\* C2: after a completed run the persisted seen-set holds only ids it held
\* before or the run fetched, an id the run fetched (relevant or not) is
\* missing from it only if the list was trimmed, and when the previous
\* seen-set and the fetched ids together number at most max_seen_ids the
\* persisted set is exactly their union.
C2_SeenSetHoldsEveryFetchedId ==
    pc = "done" =>
        LET before == SeenOnDisk(file_at_start)
            fetched == IdsOf(Fetched(searches))
            after == SeenOnDisk(state_file)
        IN /\ ~Parse(state_file.tokens).raises
           /\ after \subseteq before \cup fetched
           /\ (fetched \ after # {}) => Cardinality(before \cup fetched) > max_seen
           /\ Cardinality(before \cup fetched) <= max_seen => after = before \cup fetched

\* a completed run that fetched an irrelevant post and reported nothing,
\* the persisted set being the untrimmed union
C2_Witness ==
    /\ pc = "done"
    /\ IdC \in IdsOf(Fetched(searches))
    /\ IdC \notin SeenOnDisk(file_at_start)
    /\ IdC \notin IdsOf(summary.posts)
    /\ Cardinality(SeenOnDisk(file_at_start) \cup IdsOf(Fetched(searches))) = 2
    /\ max_seen = 2
    /\ SeenOnDisk(state_file) = SeenOnDisk(file_at_start) \cup IdsOf(Fetched(searches))

\* the run that inserted x into the seen-set, the current run being the last
InsertedIn(x) ==
    IF \E i \in 1..Len(batches) : x \in batches[i]
    THEN CHOOSE i \in 1..Len(batches) : x \in batches[i]
    ELSE Len(batches) + 1

\* C3: the trim of a run drops an id only if it drops every id inserted in
\* an earlier run as well (ids loaded from the state file being older than
\* the ids added by this run).
C3_TrimDropsOldestFirst ==
    pc \in {"save", "write"} =>
        \A x \in seen_ids \ Range(st.seen_post_ids) :
            \A y \in Range(st.seen_post_ids) : ~(InsertedIn(y) < InsertedIn(x))

\* C4: trim_seen_ids leaves at most max_size entries: the last max_size ones
\* of a longer list, the whole of a list that is not longer.
C4_TrimKeepsLastMaxSize ==
    (call.fn = "trim_seen_ids" /\ ret.returned) =>
        LET ids == call.state.seen_post_ids
            out == ret.val.seen_post_ids
            n == Len(ids)
        IN /\ Len(out) <= call.max_ids
           /\ n > call.max_ids => out = SubSeq(ids, n - call.max_ids + 1, n)
           /\ n <= call.max_ids => out = ids

\* C5: wherever a run stands, the state file is the complete file the run
\* found or the complete new state; it is never cut short.
C5_StateFileNeverPartial ==
    /\ state_file.exists => ~Parse(state_file.tokens).raises
    /\ \/ state_file = file_at_start
       \/ state_file = File(Dump(st))

\* C6: an id enters the seen-set on disk only at the end of a run whose
\* report is written, and every relevant id of the seen-set on disk is in
\* a written report, however many runs were interrupted and wherever.
C6_SeenOnlyAfterReported ==
    /\ \A x \in SeenOnDisk(state_file) : RelevantId(x) => x \in date_report
    /\ SeenOnDisk(state_file) \ SeenOnDisk(file_at_start) # {}
           => /\ pc \in {"summary", "done"}
              /\ IdsOf(new_posts) \subseteq date_report

\* a post reported by a run that was interrupted before any state was saved
\* is new again, and about to be reported again
C6_Witness ==
    /\ pc = "report"
    /\ file_at_start = NoFile
    /\ \E i \in 1..Len(new_posts) : new_posts[i].id \in date_report

\* the comments fetched for a post of this run
CommentsFor(id) ==
    IF \E i \in 1..Len(posts_with_comments) : posts_with_comments[i].id = id
    THEN posts_with_comments[CHOOSE i \in 1..Len(posts_with_comments) :
                                posts_with_comments[i].id = id].comments
    ELSE <<>>

IsPrefix(s, t) == Len(s) <= Len(t) /\ s = SubSeq(t, 1, Len(s))

\* C7: a run loads the state once, before it tests any id against the
\* seen-set; it calls save_state at most once, and only when every search,
\* every reply fetch and every classification is done and the seen-set is
\* extended by the ids of the run and trimmed; until then the state file is
\* as the run found it, and a run that returns has saved.
C7_LoadOnceSaveOnceAtEnd ==
    /\ pc \in InRun \cup {"done"} => loads = 1
    /\ saves <= 1
    /\ saves = 0 => state_file = file_at_start
    /\ pc = "done" => saves = 1
    /\ saves = 1 =>
        /\ Len(searches) = Len(QueriesOf(mode))
        /\ Len(posts_with_comments) = Len(CommentWorthy(new_posts))
        /\ \A i \in 1..Len(new_posts) :
              new_posts[i].priority =
                  classify_priority(new_posts[i], brand_aliases, competitor_names,
                                    CommentsFor(new_posts[i].id))
        /\ seen_ids = SeenOnDisk(file_at_start) \cup IdsOf(Fetched(searches))
        /\ Range(st.seen_post_ids) \subseteq seen_ids
        /\ st = trim_seen_ids(st, max_seen)
        /\ IsPrefix(state_file.tokens, Dump(st))

\* a run of two searches and a reply fetch has returned
C7_Witness ==
    /\ pc = "done"
    /\ saves = 1
    /\ Len(searches) = 2
    /\ posts_with_comments # <<>>
    /\ state_file = File(Dump(st))
    /\ state_file # file_at_start

\* the ids the searches that did not fail returned
IdsOfSucceeded ==
    UNION {IdsOf(searches[i].posts) : i \in {j \in 1..Len(searches) : ~searches[j].failed}}

\* C8: a search request that fails raises nothing in run_monitor, and a run
\* in which the search of one query failed and that of another succeeded
\* returns, with the state saved and with exactly the new relevant items
\* of the searches that succeeded.
C8_FailedSearchDoesNotStopTheRun ==
    /\ exc.at = "run_search" => exc.status = "ok"
    /\ (/\ pc = "done"
        /\ \E i, j \in 1..Len(searches) : searches[i].failed /\ ~searches[j].failed)
       => /\ saves = 1
          /\ state_file = File(Dump(st))
          /\ IdsOf(summary.posts) =
                {x \in IdsOfSucceeded : x \notin SeenOnDisk(file_at_start) /\ RelevantId(x)}

\* the first search failed, the second returned a new relevant post, and the
\* run returned it
C8_Witness ==
    /\ pc = "done"
    /\ Len(searches) = 2
    /\ searches[1].failed
    /\ ~searches[2].failed
    /\ summary.new_post_count = 1
    /\ IdsOf(summary.posts) = IdsOf(searches[2].posts)

\* a decoded body that is not the listing a search answers with: the top
\* level is no object, "data" is no object, or a child is no object
UnexpectedShape(j) ==
    \/ j.k # "obj"
    \/ /\ "data" \in DOMAIN j.o
       /\ \/ j.o["data"].k # "obj"
          \/ /\ "children" \in DOMAIN j.o["data"].o
             /\ j.o["data"].o["children"].k = "list"
             /\ \E i \in 1..Len(j.o["data"].o["children"].l) :
                    j.o["data"].o["children"].l[i].k # "obj"

\* C9: run_search returns no posts and raises nothing when the request times
\* out, answers with an error status or with a body that is not JSON, or
\* with JSON of an unexpected shape.
C9_SearchFailuresAbsorbed ==
    (/\ call.fn = "run_search"
     /\ ret.returned
     /\ (call.resp.status # "ok" \/ UnexpectedShape(call.resp.json)))
    => (~ret.val.raises /\ ret.val.val.posts = <<>>)

RECURSIVE WellFormedReplies(_)
RECURSIVE WellFormedChildren(_)

\* the replies below a node with "data" an object and "children" a list
WellFormedChildren(node) ==
    LET d == Get(node, "data", JNull) IN
    IF d.k # "obj" THEN <<>>
    ELSE LET ch == Get(d, "children", JNull) IN
        IF ch.k # "list" THEN <<>>
        ELSE Flatten([i \in 1..Len(ch.l) |-> WellFormedReplies(ch.l[i])])

\* the replies of the well-formed comment nodes reachable from node through
\* well-formed nesting, depth first; any other node is skipped
WellFormedReplies(node) ==
    IF node.k # "obj" THEN <<>>
    ELSE LET kind == Get(node, "kind", JNull)
             d == Get(node, "data", JNull)
         IN IF kind = JStr(T1) THEN
                IF d.k # "obj" THEN <<>>
                ELSE LET body == TruncText(Get(d, "body", JStr(<<>>)))
                         replies == Get(d, "replies", JNull)
                     IN <<[author |-> Native(Get(d, "author", JStr(<<>>))),
                           body |-> IF body.raises THEN <<>> ELSE body.val,
                           score |-> Native(Get(d, "score", JNum(0))),
                           id |-> Native(Get(d, "id", JStr(<<>>)))]>>
                        \o (IF replies.k = "obj" THEN WellFormedChildren(replies)
                            ELSE <<>>)
            ELSE IF kind = JStr(ListingKind) THEN WellFormedChildren(node)
            ELSE <<>>

\* the replies of a thread answer, none when the answer is no thread
RepliesOfAnswer(resp) ==
    IF resp.status # "ok" THEN <<>>
    ELSE IF resp.json.k # "list" \/ Len(resp.json.l) < 2 THEN <<>>
    ELSE WellFormedReplies(resp.json.l[2])

\* C10: fetch_comments_for_post raises for no payload; it skips every node
\* of unrecognized or malformed shape and returns the replies of the
\* well-formed comment nodes in depth-first order.
C10_CommentWalkNeverRaises ==
    (call.fn = "fetch_comments_for_post" /\ ret.returned)
    => (~ret.val.raises /\ ret.val.val.comments = RepliesOfAnswer(call.resp))

\* score + num_comments of an item
Engagement(p) == p.score + p.num_comments

\* C11: in the item list of the result of a run, with the priorities the
\* items finally carry, every URGENT item precedes every item that is not
\* URGENT, every HIGH item precedes every MEDIUM item, and items of equal
\* priority are in descending order of score + num_comments.
C11_ResultInPriorityOrder ==
    pc = "done" =>
        \A i, j \in 1..Len(summary.posts) :
            LET x == summary.posts[i]
                y == summary.posts[j]
            IN /\ (x.priority = "URGENT" /\ y.priority # "URGENT") => i < j
               /\ (x.priority = "HIGH" /\ y.priority = "MEDIUM") => i < j
               /\ (x.priority = y.priority /\ i < j) => Engagement(x) >= Engagement(y)

\* the items of new_posts whose num_comments exceeds min_comments_for_fetch
EligibleItems ==
    {p \in Range(new_posts) : p.num_comments > cfg.settings.min_comments_for_fetch}

\* the ids of the items a reply fetch was issued for, in the order of the fetches
FetchedIds == [i \in 1..Len(posts_with_comments) |-> posts_with_comments[i].id]

\* x is not behind y in the order of priority without replies, then engagement
NotBehind(x, y) ==
    LET rx == priority_order(classify_priority(x, brand_aliases, competitor_names, <<>>))
        ry == priority_order(classify_priority(y, brand_aliases, competitor_names, <<>>))
    IN rx < ry \/ (rx = ry /\ Engagement(x) >= Engagement(y))

\* C12: reply fetches go to eligible items only, to none twice and to at most
\* max_comments_to_fetch of them; when the fetch loop is over they have gone
\* to exactly min(max_comments_to_fetch, E) of the E eligible items, in sort
\* order, and every eligible item left without a fetch sorts behind them.
C12_DeepFetchBound ==
    LET budget == cfg.settings.max_comments_to_fetch
        E == Cardinality({p.id : p \in EligibleItems})
        n == IF budget < E THEN budget ELSE E
        got == {p \in EligibleItems : p.id \in Range(FetchedIds)}
    IN /\ Len(FetchedIds) <= budget
       /\ \A i, j \in 1..Len(FetchedIds) : i # j => FetchedIds[i] # FetchedIds[j]
       /\ Range(FetchedIds) \subseteq {p.id : p \in EligibleItems}
       /\ pc = "comments" => Len(FetchedIds) < n
       /\ pc \in {"report", "update", "save", "write", "summary", "done"} =>
            /\ Len(FetchedIds) = n
            /\ \A x \in got : \A y \in EligibleItems \ got : NotBehind(x, y)
            /\ \A x, y \in got :
                  (\E i, j \in 1..n : i < j /\ FetchedIds[i] = x.id /\ FetchedIds[j] = y.id)
                      => NotBehind(x, y)

\* a run is over in which two items were eligible and the budget was one
C12_Witness ==
    /\ pc = "done"
    /\ cfg.settings.max_comments_to_fetch = 1
    /\ Cardinality(EligibleItems) = 2
    /\ Len(FetchedIds) = 1

\* some brand alias occurs in the case-folded title+body of the call's post
BrandInText ==
    \E i \in 1..Len(call.brand_aliases) :
        Contains(Lower(call.post.title \o <<" ">> \o call.post.selftext),
                 call.brand_aliases[i])

\* some brand alias occurs in the case-folded body of one reply of the call
BrandInOneReply ==
    \E k \in 1..Len(call.comments) : \E i \in 1..Len(call.brand_aliases) :
        Contains(Lower(call.comments[k].body), call.brand_aliases[i])

\* some competitor name occurs in the case-folded title+body of the call's post
CompetitorInText ==
    \E i \in 1..Len(call.competitor_names) :
        Contains(Lower(call.post.title \o <<" ">> \o call.post.selftext),
                 call.competitor_names[i])

\* C13: classify_priority returns URGENT exactly when a brand alias occurs in
\* the title+body or in the body of some single reply, otherwise HIGH
\* exactly when a competitor name occurs in the title+body, otherwise
\* MEDIUM; competitor names in replies do not count.
C13_ClassifyPriorityPolicy ==
    (call.fn = "classify_priority" /\ ret.returned) =>
        ret.val = IF BrandInText \/ BrandInOneReply THEN "URGENT"
                  ELSE IF CompetitorInText THEN "HIGH"
                  ELSE "MEDIUM"

\* a keyword of the call occurs in the case-folded title+body of its post
KeywordInText ==
    \E i \in 1..Len(call.relevance_keywords) :
        Contains(Lower(call.post.title \o <<" ">> \o call.post.selftext),
                 call.relevance_keywords[i])

\* the case-folded subreddit of the call's post is in the high-value set
HighValueChannel == Lower(call.post.subreddit) \in call.high_value_subreddits

\* C14: is_relevant is true for an item of a high-value subreddit whatever
\* its text, true for an item whose title+body holds a relevance keyword
\* whatever its subreddit, and false for an item with neither.
C14_RelevantIffChannelOrKeyword ==
    (call.fn = "is_relevant" /\ ret.returned) =>
        /\ HighValueChannel => ret.val = TRUE
        /\ KeywordInText => ret.val = TRUE
        /\ (~HighValueChannel /\ ~KeywordInText) => ret.val = FALSE

\* is_relevant returned true for a post of a high-value subreddit, spelled
\* in capitals, that holds no keyword
C14_Witness ==
    /\ call.fn = "is_relevant"
    /\ ret.returned
    /\ call.post.subreddit = <<"S","Y","S">>
    /\ HighValueChannel
    /\ ~KeywordInText
    /\ ret.val = TRUE

\* the scenario: the brand alias is "widgetco", the run found no seen ids,
\* one query returned X and Y and no other query returned anything, and the
\* run is over
Scenario ==
    /\ pc = "done"
    /\ cfg.brand.aliases = <<Widgetco>>
    /\ SeenOnDisk(file_at_start) = {}
    /\ \E i \in 1..Len(searches) :
          /\ [k \in 1..Len(searches[i].posts) |-> searches[i].posts[k].id] = <<IdX, IdY>>
          /\ \A j \in 1..Len(searches) : j # i => searches[j].posts = <<>>

\* what the scenario expects: X reported as URGENT, Y not reported, both ids
\* in the seen-set the run saved
ScenarioExpected ==
    /\ \E i \in 1..Len(summary.posts) :
          summary.posts[i].id = IdX /\ summary.posts[i].priority = "URGENT"
    /\ \A i \in 1..Len(summary.posts) : summary.posts[i].id # IdY
    /\ {IdX, IdY} \subseteq SeenOnDisk(state_file)

\* the configuration makes X relevant and Y not, and the cap holds two ids
ScenarioConfigured ==
    /\ \/ \E i \in 1..Len(cfg.subreddits.high_value) :
              Lower(cfg.subreddits.high_value[i]) = Sysadmin
       \/ \E i \in 1..Len(cfg.keywords.relevance) :
              Contains(<<"h","m"," ">> \o PricingIsRough, Lower(cfg.keywords.relevance[i]))
    /\ \A i \in 1..Len(cfg.subreddits.high_value) :
          Lower(cfg.subreddits.high_value[i]) # Random
    /\ max_seen >= 2

\* C15, as stated: whatever else is configured, in the scenario the run
\* reports X as URGENT, does not report Y, and the seen-set it saves holds
\* the ids of X and of Y.
C15_ScenarioAsStated == Scenario => ScenarioExpected

\* C15, amended: in the scenario the run reports X as URGENT, does not report
\* Y, and saves a seen-set with both ids, provided "sysadmin" is a high-value
\* subreddit or a relevance keyword occurs in X's title+body, "random" is no
\* high-value subreddit, and max_seen_ids is at least 2.
C15_ScenarioConfigured == (Scenario /\ ScenarioConfigured) => ScenarioExpected

\* the scenario run under high-value subreddit "sysadmin" and a cap of two
C15_Witness ==
    /\ Scenario
    /\ ScenarioConfigured
    /\ cfg.subreddits.high_value = <<Sysadmin>>
    /\ summary.new_post_count = 1
    /\ SeenOnDisk(state_file) = {IdX, IdY}

\* the ids a search returned, in the order of its answer
AnswerIds(i) == [k \in 1..Len(searches[i].posts) |-> searches[i].posts[k].id]

\* the first query, in the order issued, that returned id
FirstQuery(id) ==
    CHOOSE i \in 1..Len(searches) :
        /\ id \in Range(AnswerIds(i))
        /\ \A j \in 1..(i - 1) : id \notin Range(AnswerIds(j))

\* every id returned occurs once in s, under the label of the first query
\* that returned it
OneCopyFirstLabel(s) ==
    /\ \A i, j \in 1..Len(s) : i # j => s[i].id # s[j].id
    /\ \A i \in 1..Len(s) :
          /\ \E q \in 1..Len(searches) : s[i].id \in Range(AnswerIds(q))
          /\ s[i].query_label = searches[FirstQuery(s[i].id)].label

\* C16: of the posts returned under one id, by several queries of a run or
\* several times by one, the deduplicated list holds exactly one, labelled
\* with the first query that returned the id, and so do the new posts of
\* the run and the result it returns.
C16_FirstCopyKept ==
    /\ pc \in {"search", "process"} =>
          /\ OneCopyFirstLabel(Unique(searches))
          /\ IdsOf(Unique(searches)) = UNION {Range(AnswerIds(q)) : q \in 1..Len(searches)}
    /\ pc \in {"comments", "report", "update", "save", "write", "summary"} =>
          OneCopyFirstLabel(new_posts)
    /\ pc = "done" => OneCopyFirstLabel(summary.posts)

\* two queries returned IdB, the first of them after IdA, and the result
\* holds IdB under the label of the first
C16_Witness ==
    /\ pc = "done"
    /\ Len(searches) = 2
    /\ AnswerIds(1) = <<IdA, IdB>>
    /\ IdB \in Range(AnswerIds(2))
    /\ \E i \in 1..Len(summary.posts) :
          summary.posts[i].id = IdB /\ summary.posts[i].query_label = searches[1].label

\* the labels of a list of configured queries
Labels(qs) == [i \in 1..Len(qs) |-> qs[i].label]

\* the labels of the queries issued so far, in the order issued
IssuedLabels == [i \in 1..Len(searches) |-> searches[i].label]

\* C17: a daily run issues the configured daily queries and no others, each
\* with time window "week"; a weekly or all run issues the daily queries
\* followed by the weekly queries, each with time window "month".
C17_ModeSelectsQueriesAndWindow ==
    pc \in InRun \cup {"done"} =>
        LET narrow == Labels(cfg.queries.daily)
            broad == Labels(cfg.queries.daily) \o Labels(cfg.queries.weekly)
        IN /\ mode \in {"daily", "weekly", "all"}
           /\ mode = "daily" =>
                /\ IsPrefix(IssuedLabels, narrow)
                /\ pc # "search" => IssuedLabels = narrow
                /\ \A i \in 1..Len(searches) : searches[i].time_filter = "week"
           /\ mode \in {"weekly", "all"} =>
                /\ IsPrefix(IssuedLabels, broad)
                /\ pc # "search" => IssuedLabels = broad
                /\ \A i \in 1..Len(searches) : searches[i].time_filter = "month"

\* a daily run is over that issued the one daily query with window "week"
C17_Witness ==
    /\ pc = "done"
    /\ mode = "daily"
    /\ IssuedLabels = <<"q1">>
    /\ searches[1].time_filter = "week"

\* C18: load_state raises nothing when there is no state file; the run then
\* starts from an empty seen-id list and a null last_run, and every relevant
\* item it fetches is new.
C18_NoStateFileIsFreshState ==
    /\ exc.at \in {"load_state", "run_monitor"} => file_at_start.exists
    /\ (pc \in {"search", "process", "comments", "report"} /\ ~file_at_start.exists) =>
          /\ st = [seen_post_ids |-> <<>>, last_run |-> "None"]
          /\ seen_ids = {}
    /\ (pc \in {"comments", "report", "update", "save"} /\ ~file_at_start.exists) =>
          IdsOf(new_posts) = {x \in IdsOf(Fetched(searches)) : RelevantId(x)}

\* a run without a state file is over and has reported a post
C18_Witness ==
    /\ pc = "done"
    /\ ~file_at_start.exists
    /\ summary.new_post_count > 0

\* the state file exists and json.load rejects it, or it decodes to an
\* object without the list of seen ids
Corrupt(file) ==
    /\ file.exists
    /\ \/ Parse(file.tokens).raises
       \/ "seen_post_ids" \notin DOMAIN Parse(file.tokens).val

\* C19: a run that finds a corrupt state file raises in its first step,
\* before any search is issued, with no seen-set made up, and leaves the
\* state file and the report file as they were; no run gets past loading
\* with a corrupt state file.
C19_CorruptStateFileRaises ==
    /\ [](pc \in InRun => ~Corrupt(file_at_start))
    /\ [][(pc \notin InRun /\ Corrupt(state_file)) =>
            /\ pc' = "aborted"
            /\ exc'.at \in {"load_state", "run_monitor"}
            /\ exc'.exc \in {"JSONDecodeError", "KeyError", "TypeError"}
            /\ searches' = <<>>
            /\ seen_ids' = {}
            /\ state_file' = state_file
            /\ date_report' = date_report]_vars

\* a run has raised on a state file that an interrupted save had cut short
\* after the report of that run was written
C19_Witness ==
    /\ pc = "aborted"
    /\ exc.at = "load_state"
    /\ exc.exc = "JSONDecodeError"
    /\ Corrupt(state_file)
    /\ date_report # {}

\* the positions of the result's items that carry priority pr
WithPriority(pr) == {i \in 1..Len(summary.posts) : summary.posts[i].priority = pr}

\* C20: in the result of a run urgent_count is the number of returned items
\* that carry URGENT, high_count the number that carry HIGH, new_post_count
\* the number of returned items, urgent_count + high_count is at most
\* new_post_count, and has_urgent is true exactly when urgent_count > 0.
C20_CountsAgreeWithResult ==
    pc = "done" =>
        /\ summary.urgent_count = Cardinality(WithPriority("URGENT"))
        /\ summary.high_count = Cardinality(WithPriority("HIGH"))
        /\ summary.new_post_count = Len(summary.posts)
        /\ summary.urgent_count + summary.high_count <= summary.new_post_count
        /\ summary.has_urgent <=> summary.urgent_count > 0
        /\ \A i \in 1..Len(summary.posts) :
              summary.posts[i].priority \in {"URGENT", "HIGH", "MEDIUM"}

\* a result of two items, one MEDIUM and one that its replies made URGENT
C20_Witness ==
    /\ pc = "done"
    /\ summary.new_post_count = 2
    /\ summary.urgent_count = 1
    /\ summary.high_count = 0
    /\ summary.has_urgent
    /\ \E i \in 1..Len(summary.posts) :
          /\ summary.posts[i].priority = "URGENT"
          /\ ~AnyIn(LowerAll(cfg.brand.aliases), PostText(summary.posts[i]))

\* the ids of the run result, in its order
ResultIds == [i \in 1..Len(summary.posts) |-> summary.posts[i].id]

\* C21: every item of a run result is new, its identifier was not in the
\* seen-set the run loaded, whatever its relevance or priority, and no two
\* items of one run result share an identifier.
C21_ResultItemsNewAndDistinct ==
    pc = "done" =>
        /\ \A i \in 1..Len(ResultIds) : ResultIds[i] \notin SeenOnDisk(file_at_start)
        /\ \A i, j \in 1..Len(ResultIds) : ResultIds[i] = ResultIds[j] => i = j

\* C21: a run has returned a result although it fetched a relevant item that
\* was already in the seen-set it loaded, and an item of the result was
\* answered by more than one search.
C21_Witness ==
    /\ pc = "done"
    /\ summary.posts # <<>>
    /\ \E id \in IdsOf(Fetched(searches)) \cap SeenOnDisk(file_at_start) : RelevantId(id)
    /\ \E i, j \in 1..Len(Fetched(searches)) :
        /\ i # j
        /\ Fetched(searches)[i].id = Fetched(searches)[j].id
        /\ Fetched(searches)[i].id \in Range(ResultIds)

\* C22: between any two consecutive network calls of a run, searches and
\* reply fetches alike, the rate delay is slept after the first call and
\* before the second, whether the first call succeeded or failed.
C22_DelayBetweenCalls ==
    \A i \in 1..(Len(net) - 1) : net[i].slept

\* the replies recorded for a deep-fetched item of the result
RepliesOf(id) ==
    LET k == CHOOSE k \in 1..Len(summary.posts_with_comments) :
                summary.posts_with_comments[k].id = id
    IN summary.posts_with_comments[k].comments

DeepFetched(id) == id \in IdsOf(summary.posts_with_comments)

\* C23: the final priority of a deep-fetched item is classify_priority
\* evaluated with its replies, and the final priority of an item that was not
\* deep-fetched is classify_priority evaluated without replies.
C23_FinalPriorityBySelection ==
    pc = "done" =>
        \A i \in 1..Len(summary.posts) :
            LET p == summary.posts[i] IN
            p.priority = classify_priority(p, brand_aliases, competitor_names,
                            IF DeepFetched(p.id) THEN RepliesOf(p.id) ELSE <<>>)

\* C23: a run has returned two new relevant items with the same title and
\* body and different priorities, one deep-fetched and the other not.
C23_Witness ==
    /\ pc = "done"
    /\ \E i, j \in 1..Len(summary.posts) :
        LET p == summary.posts[i]
            q == summary.posts[j]
        IN /\ p.title = q.title
           /\ p.selftext = q.selftext
           /\ p.priority # q.priority
           /\ DeepFetched(p.id)
           /\ ~DeepFetched(q.id)
           /\ p.num_comments > min_comments
           /\ q.num_comments <= min_comments

\* the case-folded bodies of a reply list
LowBodies(comments) == [k \in 1..Len(comments) |-> Lower(comments[k].body)]

\* the terms of a list that occur in a case-folded body
TermsIn(terms, low) == {t \in Range(terms) : Contains(low, t)}

\* the places of the replies that name a brand alias or a competitor
Matching(comments) ==
    LET low == LowBodies(comments)
        names == brand_aliases \o competitor_names
    IN {k \in 1..Len(comments) : TermsIn(names, low[k]) # {}}

\* the n-th place of a set of places
Nth(S, n) == CHOOSE k \in S : Cardinality({m \in S : m <= k}) = n

\* the findings recorded for an item
FindingsOf(id) ==
    LET k == CHOOSE k \in 1..Len(brand_findings) : brand_findings[k].id = id
    IN brand_findings[k].findings

\* a finding is the entry of a reply
EntryOf(f, reply) ==
    LET low == Lower(reply.body)
        brands == TermsIn(brand_aliases, low)
        competitors == TermsIn(competitor_names, low)
    IN /\ f.author = reply.author
       /\ f.score = reply.score
       /\ f.excerpt = Take(reply.body, 300)
       /\ Range(f.rise_mentions) = brands
       /\ Len(f.rise_mentions) = Cardinality(brands)
       /\ Range(f.competitor_mentions) = competitors
       /\ Len(f.competitor_mentions) = Cardinality(competitors)

\* C24: for every deep-fetched item the brand-mention findings hold exactly
\* one entry, in reply order, for each fetched reply whose case-folded body
\* contains a brand alias or a competitor name, listing exactly the matched
\* aliases and competitor names, and none for the other replies; an item has
\* an entry in the findings map iff it was deep-fetched and a reply matched.
C24_FindingsPerMatchingReply ==
    /\ \A i \in 1..Len(posts_with_comments) :
        LET e == posts_with_comments[i]
            M == Matching(e.comments)
        IN /\ e.id \in IdsOf(brand_findings) <=> M # {}
           /\ M # {} =>
                LET f == FindingsOf(e.id) IN
                /\ Len(f) = Cardinality(M)
                /\ \A n \in 1..Len(f) : EntryOf(f[n], e.comments[Nth(M, n)])
    /\ IdsOf(brand_findings) \subseteq IdsOf(posts_with_comments)
    /\ \A i, j \in 1..Len(brand_findings) :
            brand_findings[i].id = brand_findings[j].id => i = j

\* C24: two items were deep-fetched; one has three replies of which the
\* first and the last match, the last naming both a brand alias and a
\* competitor, and two findings; the other has replies and no findings.
C24_Witness ==
    /\ Len(posts_with_comments) = 2
    /\ \E i, j \in 1..2 :
        LET e == posts_with_comments[i]
            o == posts_with_comments[j]
        IN /\ Matching(e.comments) = {1, 3}
           /\ Len(FindingsOf(e.id)) = 2
           /\ FindingsOf(e.id)[2].rise_mentions # <<>>
           /\ FindingsOf(e.id)[2].competitor_mentions # <<>>
           /\ o.comments # <<>>
           /\ o.id \notin IdsOf(brand_findings)

\* what the call's post is classified as when no replies are passed
WithoutReplies ==
    classify_priority(call.post, call.brand_aliases, call.competitor_names, <<>>)

\* C25: classifying with replies never lowers a priority: the rank with
\* replies is at least as severe as the rank without, and the only change
\* there can be is HIGH or MEDIUM becoming URGENT.
C25_RepliesNeverLower ==
    (call.fn = "classify_priority" /\ ret.returned) =>
        /\ priority_order(ret.val) <= priority_order(WithoutReplies)
        /\ ret.val # WithoutReplies =>
                (ret.val = "URGENT" /\ WithoutReplies \in {"HIGH", "MEDIUM"})

\* C25: a post that names a competitor and not the brand was classified
\* with replies that name the brand: HIGH without them, URGENT with them.
C25_Witness ==
    /\ call.fn = "classify_priority"
    /\ ret.returned
    /\ call.comments # <<>>
    /\ WithoutReplies = "HIGH"
    /\ ret.val = "URGENT"

\* the call of fetch_reddit made for the i-th deep-fetched item: the reply
\* fetches follow the searches
ReplyCall(i) == net[Len(searches) + i]

\* the deep-fetched items whose reply fetch failed or was answered with a
\* payload that is not a list of two elements or more
Unanswered == {i \in 1..Len(posts_with_comments) : ReplyCall(i).got # "list2"}

\* the item of the result list with an id
ItemOf(id) == new_posts[CHOOSE j \in 1..Len(new_posts) : new_posts[j].id = id]

\* C26: when the reply fetch for a selected item fails or returns a payload
\* that is not a list of at least two elements, the run continues: the item
\* is recorded with an empty reply list, its priority stays the one assigned
\* without replies, no brand-mention findings are recorded for it, it still
\* takes one slot of the deep-fetch budget, and its identifier is still added
\* to the seen-set.
C26_FailedReplyFetchIsAbsorbed ==
    /\ (pc = "aborted" /\ exc.at = "fetch_comments_for_post") => exc.status = "ok"
    /\ Len(posts_with_comments) <= max_comments
    /\ pc \in {"report", "update", "save", "write", "summary", "done"} =>
            \/ Len(posts_with_comments) = max_comments
            \/ Len(posts_with_comments) = Cardinality({p.id : p \in EligibleItems})
    /\ \A i \in Unanswered :
        LET id == posts_with_comments[i].id IN
        /\ posts_with_comments[i].comments = <<>>
        /\ ItemOf(id).priority =
                classify_priority(ItemOf(id), brand_aliases, competitor_names, <<>>)
        /\ id \notin IdsOf(brand_findings)
        /\ \A j \in 1..Len(posts_with_comments) :
                posts_with_comments[j].id = id => j = i
        /\ pc \in {"save", "write", "summary", "done"} => id \in seen_ids
        /\ pc = "done" => id \in IdsOf(summary.posts_with_comments)

\* C26: a run with a deep-fetch budget of two has returned; the reply fetch
\* of its first selected item failed, that of the second was answered with a
\* payload that is no list of two elements, and no third item was fetched
\* although one had replies enough.
C26_Witness ==
    /\ pc = "done"
    /\ max_comments = 2
    /\ Len(posts_with_comments) = 2
    /\ Unanswered = {1, 2}
    /\ Cardinality({p.id : p \in EligibleItems}) = 3
    /\ ReplyCall(1).got = "None"
    /\ ~ReplyCall(1).slept
    /\ ReplyCall(2).got = "other"
    /\ {posts_with_comments[1].id, posts_with_comments[2].id} \subseteq seen_ids
====
